---------------------------- MODULE Spec2Model ----------------------------
(***************************************************************************)
(* Stepper driver abstraction of Repetier-Firmware                         *)
(* (src/src/Repetier/src/drivers/stepper.h): StepperDriverBase and its two *)
(* variants SimpleStepperDriver and TMC2130StepperDriver, for ONE driver   *)
(* instance owned by one caller (no concurrency).                          *)
(*                                                                         *)
(* Every virtual method is one action.  The digital outputs (stepCls,      *)
(* dirCls, enableCls), the two EndstopDriver objects, the TMC2130Stepper   *)
(* chip handle and Com are external collaborators: an output is modelled   *)
(* by the level it was last driven to, an endstop by the value update()    *)
(* returns, the chip by its six tracked registers plus the list of calls   *)
(* made on it.  Every action records what the call did in `last`: the      *)
(* calls it issued on the collaborators (in order) and its return value.   *)
(***************************************************************************)
EXTENDS Integers, Sequences, FiniteSets

(***************************************************************************)
(* Bounds of the model.                                                    *)
(***************************************************************************)
\* test_connection() status codes are drawn from 0..MaxTestCode (0 = OK)
MaxTestCode == 1
\* arguments of setMicrosteps / setMotorCurrent / setMotorCurrentPercent
MaxArg == 0
\* the chip starts to report standstill at poll 0..MaxLate, or at the first
\* poll past the budget, or never
MaxLate == 0

(***************************************************************************)
(* Program constants.                                                      *)
(***************************************************************************)
\* #define TRINAMIC_WAIT_RESOLUTION_uS 100
TRINAMIC_WAIT_RESOLUTION_uS == 100
\* TRINAMIC_WAIT_FOR_STANDSTILL(100): timeout in milliseconds, the same at
\* the three places the wait is used
STANDSTILL_TIMEOUT_MS == 100
\* uint16_t count
COUNT_BITS == 16
\* "Set current as percentage of maximum 0..100"
MAX_PERCENT == 100

Variants == {"Simple", "TMC2130"}

\* the fields of TMC2130StepperDriver::backup, in declaration order
RegNames == <<"GCONF", "CHOPCONF", "COOLCONF", "PWMCONF", "TCOOLTHRS", "TPWMTHRS">>

Regs == {RegNames[i] : i \in 1..Len(RegNames)}

\* The contents of a register.  The driver only copies register contents
\* (chip to backup and back) and never computes with them, so two
\* distinguishable contents stand for the 2^32 values of a register.
RegVals == {"x", "y"}

RegFile == [Regs -> RegVals]

\* position of a register in RegNames
RegIndex(r) == CHOOSE i \in 1..Len(RegNames) : RegNames[i] = r

\* the register files the chip may hold when the driver is constructed:
\* neighbouring registers hold different values
PowerOnRegs ==
    {[r \in Regs |-> IF (RegIndex(r) + b) % 2 = 0 THEN "x" ELSE "y"] : b \in 0..1}

\* value of a backup field that was never written
Uninit == "uninit"

TestCodes == 0..MaxTestCode

Args == 0..MaxArg

\* arguments of setMotorCurrentPercent: the small ones and the largest
PercentArgs == Args \cup {MAX_PERCENT}

VARIABLES
    variant,    \* which class the driver instance is
    direction,  \* StepperDriverBase::direction
    stepPin,    \* level of the step output (stepCls)
    dirPin,     \* level of the direction output (dirCls)
    enablePin,  \* level of the enable output (enableCls): TRUE after on()
    regs,       \* the chip's six tracked registers
    backup,     \* TMC2130StepperDriver::backup
    hung,       \* the caller is inside a wait loop that never exits
    homing,     \* history: beforeHoming() was called and afterHoming() not yet
    snap,       \* history: the chip registers at the last beforeHoming()
    dirArg,     \* history: the argument of the last dir(), "none" before it
    last,       \* history: the last call, what it did and what it returned
    prevBlocked \* history: the call before the last one was a stepCond()
                \* that returned true

vars == <<variant, direction, stepPin, dirPin, enablePin, regs, backup,
          hung, homing, snap, dirArg, last, prevBlocked>>

driverState == <<direction, stepPin, dirPin, enablePin, regs, backup>>

(***************************************************************************)
(* Helpers on call lists.                                                  *)
(***************************************************************************)
Count(calls, c) == Cardinality({i \in 1..Len(calls) : calls[i] = c})

Has(calls, c) == \E i \in 1..Len(calls) : calls[i] = c

\* position of the first occurrence of c (0 when absent)
First(calls, c) ==
    IF Has(calls, c)
    THEN CHOOSE i \in 1..Len(calls) :
            calls[i] = c /\ \A j \in 1..(i - 1) : calls[j] # c
    ELSE 0

\* level of an output after the calls, from the level before: the last
\* on()/off() among them decides
PinAfter(level, calls, on, off) ==
    LET sets == {i \in 1..Len(calls) : calls[i] \in {on, off}}
    IN IF sets = {} THEN level
       ELSE LET i == CHOOSE i \in sets : \A j \in sets : j <= i
            IN calls[i] = on

BoolStr(b) == IF b THEN "true" ELSE "false"

\* the record of a call that does nothing observable
Call(op, arg, ret, calls) ==
    [op |-> op, arg |-> arg, ret |-> ret, calls |-> calls,
     minT |-> FALSE, maxT |-> FALSE, test1 |-> 0, test2 |-> 0,
     waited |-> FALSE, still |-> 0, delays |-> 0]

(***************************************************************************)
(* Construction.                                                           *)
(***************************************************************************)
\* StepperDriverBase(minES, maxES): direction(true).  The outputs keep the
\* level the hardware gives them, the chip registers any value, and the
\* backup record is not initialised.
Init ==
    /\ variant \in Variants
    /\ direction = TRUE
    /\ stepPin \in BOOLEAN
    /\ dirPin \in BOOLEAN
    /\ enablePin \in BOOLEAN
    /\ regs \in IF variant = "TMC2130" THEN PowerOnRegs ELSE {[r \in Regs |-> "x"]}
    /\ backup = [r \in Regs |-> Uninit]
    /\ hung = FALSE
    /\ homing = FALSE
    /\ snap = [r \in Regs |-> Uninit]
    /\ dirArg = "none"
    /\ last = Call("new", 0, "void", <<>>)
    /\ prevBlocked = FALSE

(***************************************************************************)
(* Stepping, direction and enable: SimpleStepperDriver.                    *)
(***************************************************************************)
\* mutant: both endstops are polled and either one blocks the step
Mutant_stepCondBoth(d, minT, maxT) ==
    IF ~minT /\ ~maxT
    THEN [ret |-> FALSE,
          calls |-> <<"minEndstop.update", "maxEndstop.update", "step.on">>]
    ELSE [ret |-> TRUE, calls |-> <<"minEndstop.update", "maxEndstop.update">>]

\* SimpleStepperDriver::stepCond; minT/maxT are what update() of the min /
\* max endstop would return
Simple_stepCond(d, minT, maxT) ==
    IF d
    THEN IF ~maxT
         THEN [ret |-> FALSE, calls |-> <<"maxEndstop.update", "step.on">>]
         ELSE [ret |-> TRUE, calls |-> <<"maxEndstop.update">>]
    ELSE IF ~minT
         THEN [ret |-> FALSE, calls |-> <<"minEndstop.update", "step.on">>]
         ELSE [ret |-> TRUE, calls |-> <<"minEndstop.update">>]

\* mutant: step() polls the max endstop before the pulse
Mutant_step == <<"maxEndstop.update", "step.on">>

Simple_step == <<"step.on">>

Simple_unstep == <<"step.off">>

\* mutant: the direction flag is not stored
Mutant_dir(d) == [calls |-> <<"dir.set">>, level |-> d, direction |-> direction]

\* SimpleStepperDriver::dir: the level given to dirCls::set and the value
\* stored in direction
Simple_dir(d) == [calls |-> <<"dir.set">>, level |-> d, direction |-> d]

Simple_enable == <<"enable.on">>

Simple_disable == <<"enable.off">>

(***************************************************************************)
(* Stepping, direction and enable: TMC2130StepperDriver.                   *)
(***************************************************************************)
\* mutant: the direction test is inverted
Mutant_stepCond(d, minT, maxT) ==
    IF ~d
    THEN IF ~maxT
         THEN [ret |-> FALSE, calls |-> <<"maxEndstop.update", "step.on">>]
         ELSE [ret |-> TRUE, calls |-> <<"maxEndstop.update">>]
    ELSE IF ~minT
         THEN [ret |-> FALSE, calls |-> <<"minEndstop.update", "step.on">>]
         ELSE [ret |-> TRUE, calls |-> <<"minEndstop.update">>]

TMC_stepCond(d, minT, maxT) ==
    IF d
    THEN IF ~maxT
         THEN [ret |-> FALSE, calls |-> <<"maxEndstop.update", "step.on">>]
         ELSE [ret |-> TRUE, calls |-> <<"maxEndstop.update">>]
    ELSE IF ~minT
         THEN [ret |-> FALSE, calls |-> <<"minEndstop.update", "step.on">>]
         ELSE [ret |-> TRUE, calls |-> <<"minEndstop.update">>]

TMC_step == <<"step.on">>

\* mutant: unstep() raises the step output
Mutant_unstep == <<"step.on">>

TMC_unstep == <<"step.off">>

TMC_dir(d) == [calls |-> <<"dir.set">>, level |-> d, direction |-> d]

TMC_enable == <<"enable.on">>

\* mutant: disable() switches the output stage on
Mutant_disable == <<"enable.on">>

TMC_disable == <<"enable.off">>

\* the last call was a stepCond() that found the endstop triggered
Blocked == last.op = "stepCond" /\ last.ret = "true"

\* effect of a list of calls on the three outputs
Outputs(calls) ==
    /\ stepPin' = PinAfter(stepPin, calls, "step.on", "step.off")
    /\ enablePin' = PinAfter(enablePin, calls, "enable.on", "enable.off")

stepCond ==
    /\ ~hung
    /\ \E minT, maxT \in BOOLEAN :
         LET r == IF variant = "Simple" THEN Simple_stepCond(direction, minT, maxT)
                  ELSE TMC_stepCond(direction, minT, maxT)
         IN /\ Outputs(r.calls)
            /\ last' = [Call("stepCond", 0, BoolStr(r.ret), r.calls)
                           EXCEPT !.minT = minT, !.maxT = maxT]
    /\ prevBlocked' = Blocked
    /\ UNCHANGED <<variant, dirArg, direction, dirPin, regs, backup, hung, homing, snap>>

step ==
    /\ ~hung
    /\ LET calls == IF variant = "Simple" THEN Simple_step ELSE TMC_step
       IN /\ Outputs(calls)
          /\ last' = Call("step", 0, "void", calls)
    /\ prevBlocked' = Blocked
    /\ UNCHANGED <<variant, dirArg, direction, dirPin, regs, backup, hung, homing, snap>>

unstep ==
    /\ ~hung
    /\ LET calls == IF variant = "Simple" THEN Simple_unstep ELSE TMC_unstep
       IN /\ Outputs(calls)
          /\ last' = Call("unstep", 0, "void", calls)
    /\ prevBlocked' = Blocked
    /\ UNCHANGED <<variant, dirArg, direction, dirPin, regs, backup, hung, homing, snap>>

dir ==
    /\ ~hung
    /\ \E d \in BOOLEAN :
         LET r == IF variant = "Simple" THEN Simple_dir(d) ELSE TMC_dir(d)
         IN /\ dirPin' = r.level
            /\ direction' = r.direction
            /\ dirArg' = BoolStr(d)
            /\ last' = Call("dir", IF d THEN 1 ELSE 0, "void", r.calls)
    /\ prevBlocked' = Blocked
    /\ UNCHANGED <<variant, stepPin, enablePin, regs, backup, hung, homing, snap>>

enable ==
    /\ ~hung
    /\ LET calls == IF variant = "Simple" THEN Simple_enable ELSE TMC_enable
       IN /\ Outputs(calls)
          /\ last' = Call("enable", 0, "void", calls)
    /\ prevBlocked' = Blocked
    /\ UNCHANGED <<variant, dirArg, direction, dirPin, regs, backup, hung, homing, snap>>

disable ==
    /\ ~hung
    /\ LET calls == IF variant = "Simple" THEN Simple_disable ELSE TMC_disable
       IN /\ Outputs(calls)
          /\ last' = Call("disable", 0, "void", calls)
    /\ prevBlocked' = Blocked
    /\ UNCHANGED <<variant, dirArg, direction, dirPin, regs, backup, hung, homing, snap>>

(***************************************************************************)
(* The standstill wait.                                                    *)
(*   #define WAIT_UNTIL(condition, timeout)                                *)
(*     for(uint16_t count = 0;                                             *)
(*         !condition || count < (timeout * 1000 / RESOLUTION); count++)   *)
(*       { HAL::delayMicroseconds(RESOLUTION); }                           *)
(* The arithmetic of the bound is int arithmetic; the firmware targets     *)
(* 32-bit boards, where 100 * 1000 does not overflow.                      *)
(***************************************************************************)
\* timeout * 1000 / TRINAMIC_WAIT_RESOLUTION_uS
WaitBudget(timeout) == (timeout * 1000) \div TRINAMIC_WAIT_RESOLUTION_uS

\* mutant: the loop also ends when the budget is used up
Mutant_WaitCond(stst, count, timeout) == ~stst /\ count < WaitBudget(timeout)

\* the loop's continuation condition, `condition` being driver.stst()
WaitCond(stst, count, timeout) == ~stst \/ count < WaitBudget(timeout)

\* value of count at the n-th evaluation of the condition (n = 0, 1, ...)
CountAt(n) == n % (2 ^ COUNT_BITS)

\* The chip's standstill predicate over the polls of one wait: pattern k
\* reports moving at the polls before the k-th and standstill from the k-th
\* on; pattern Never reports moving at every poll.
Never == 0 - 1

StstPatterns ==
    (0..MaxLate)
    \cup {WaitBudget(STANDSTILL_TIMEOUT_MS) + 1}
    \cup {Never}

Stst(k, n) == k # Never /\ n >= k

\* the polls examined: one full cycle of count and one budget more, after
\* which a constant predicate meets a value of count it has met before
MaxPolls == 2 ^ COUNT_BITS + WaitBudget(STANDSTILL_TIMEOUT_MS)

\* The loop under pattern k: it exits at the first poll n where the
\* condition is false, after n delays; without such a poll it never exits.
WAIT_UNTIL(k, timeout) ==
    LET Exit(n) == ~WaitCond(Stst(k, n), CountAt(n), timeout)
    IN IF \E n \in 0..MaxPolls : Exit(n)
       THEN LET n == CHOOSE n \in 0..MaxPolls :
                        Exit(n) /\ \A m \in 0..(n - 1) : ~Exit(m)
            IN [exits |-> TRUE, delays |-> n, stst |-> Stst(k, n)]
       ELSE [exits |-> FALSE, delays |-> MaxPolls, stst |-> FALSE]

\* TRINAMIC_WAIT_FOR_STANDSTILL(100) under each pattern
TRINAMIC_WAIT_FOR_STANDSTILL ==
    [k \in StstPatterns |-> WAIT_UNTIL(k, STANDSTILL_TIMEOUT_MS)]

(***************************************************************************)
(* The chip.  Which tracked register a TMC2130Stepper call writes is the   *)
(* chip's register map: I_scale_analog, internal_Rsense and diag1_stall    *)
(* are fields of GCONF, intpol (interpolate), MRES (microsteps), vsense    *)
(* (rms_current) and toff/tbl (begin) fields of CHOPCONF, sgt a field of   *)
(* COOLCONF.  The value a field write leaves in its register is not        *)
(* modelled: the register may hold any value afterwards.                   *)
(***************************************************************************)
Touches(c) ==
    CASE c \in {"I_scale_analog(true)", "internal_Rsense(false)",
                "diag1_stall(true)", "GCONF.write"} -> {"GCONF"}
      [] c \in {"begin", "interpolate(false)", "microsteps", "rms_current",
                "CHOPCONF.write"} -> {"CHOPCONF"}
      [] c \in {"sgt(0)", "COOLCONF.write"} -> {"COOLCONF"}
      [] c = "PWMCONF.write" -> {"PWMCONF"}
      [] c = "TCOOLTHRS.write" -> {"TCOOLTHRS"}
      [] c = "TPWMTHRS.write" -> {"TPWMTHRS"}
      [] OTHER -> {}

Touched(calls) == UNION {Touches(calls[i]) : i \in 1..Len(calls)}

\* the calls that write a register of the chip
ChipWrites(calls) == {i \in 1..Len(calls) : Touches(calls[i]) # {}}

\* the register files the field writes among the calls can leave
AfterFieldWrites(chip, calls) ==
    LET T == Touched(calls)
    IN {[r \in Regs |-> IF r \in T THEN g[r] ELSE chip[r]] : g \in [T -> RegVals]}

(***************************************************************************)
(* init                                                                    *)
(***************************************************************************)
\* StepperDriverBase::init
Base_init == [ret |-> "true", calls |-> <<>>]

\* mutant: the output stage is enabled before the configuration writes
Mutant_init(t1, t2, w) ==
    LET start == <<"print(TMC2130 initialization...)", "enable.off", "begin",
                   "test_connection", "test_connection">>
    IN IF t2 # 0
       THEN [ret |-> "false", calls |-> start \o <<"print(SPI error)">>]
       ELSE IF ~w.exits
       THEN [ret |-> "none",
             calls |-> start \o <<"version", "print(chip version)", "WAIT_UNTIL">>]
       ELSE [ret |-> "true",
             calls |-> start \o <<"version", "print(chip version)", "WAIT_UNTIL",
                                  "enable.on",
                                  "I_scale_analog(true)", "interpolate(false)",
                                  "internal_Rsense(false)", "sgt(0)",
                                  "diag1_stall(true)">>]

\* mutant: the output stage is not switched off at the start
Mutant_initNoOff(t1, t2, w) ==
    LET start == <<"print(TMC2130 initialization...)", "begin",
                   "test_connection", "test_connection">>
    IN IF t2 # 0
       THEN [ret |-> "false", calls |-> start \o <<"print(SPI error)">>]
       ELSE IF ~w.exits
       THEN [ret |-> "none",
             calls |-> start \o <<"version", "print(chip version)", "WAIT_UNTIL">>]
       ELSE [ret |-> "true",
             calls |-> start \o <<"version", "print(chip version)", "WAIT_UNTIL",
                                  "I_scale_analog(true)", "interpolate(false)",
                                  "internal_Rsense(false)", "sgt(0)",
                                  "diag1_stall(true)", "enable.on">>]

\* mutant: the result of the first connectivity test decides
Mutant_initFirstTest(t1, t2, w) ==
    LET start == <<"print(TMC2130 initialization...)", "enable.off", "begin",
                   "test_connection", "test_connection">>
    IN IF t1 # 0
       THEN [ret |-> "false", calls |-> start \o <<"print(SPI error)">>]
       ELSE IF ~w.exits
       THEN [ret |-> "none",
             calls |-> start \o <<"version", "print(chip version)", "WAIT_UNTIL">>]
       ELSE [ret |-> "true",
             calls |-> start \o <<"version", "print(chip version)", "WAIT_UNTIL",
                                  "I_scale_analog(true)", "interpolate(false)",
                                  "internal_Rsense(false)", "sgt(0)",
                                  "diag1_stall(true)", "enable.on">>]

\* TMC2130StepperDriver::init; t1, t2 are the results of the two
\* test_connection() calls, w the outcome of the standstill wait
TMC_init(t1, t2, w) ==
    LET start == <<"print(TMC2130 initialization...)", "enable.off", "begin",
                   "test_connection", "test_connection">>
    IN IF t2 # 0
       THEN [ret |-> "false", calls |-> start \o <<"print(SPI error)">>]
       ELSE IF ~w.exits
       THEN [ret |-> "none",
             calls |-> start \o <<"version", "print(chip version)", "WAIT_UNTIL">>]
       ELSE [ret |-> "true",
             calls |-> start \o <<"version", "print(chip version)", "WAIT_UNTIL",
                                  "I_scale_analog(true)", "interpolate(false)",
                                  "internal_Rsense(false)", "sgt(0)",
                                  "diag1_stall(true)", "enable.on">>]

\* the part of `last` a standstill wait fills in
Waited(rec, k, w) ==
    IF Has(rec.calls, "WAIT_UNTIL")
    THEN [rec EXCEPT !.waited = TRUE, !.still = k, !.delays = w.delays]
    ELSE rec

init ==
    /\ ~hung
    /\ \E t1, t2 \in TestCodes, k \in StstPatterns :
         LET w == TRINAMIC_WAIT_FOR_STANDSTILL[k]
             r == IF variant = "Simple" THEN Base_init ELSE TMC_init(t1, t2, w)
         IN /\ (~Has(r.calls, "WAIT_UNTIL") => k = 0)
            /\ (variant = "Simple" => t1 = 0 /\ t2 = 0)
            /\ Outputs(r.calls)
            /\ regs' \in AfterFieldWrites(regs, r.calls)
            /\ hung' = (r.ret = "none")
            /\ last' = Waited([Call("init", 0, r.ret, r.calls)
                                  EXCEPT !.test1 = t1, !.test2 = t2], k, w)
    /\ prevBlocked' = Blocked
    /\ UNCHANGED <<variant, dirArg, direction, dirPin, backup, homing, snap>>

(***************************************************************************)
(* Capability queries and configuration setters.                           *)
(***************************************************************************)
\* StepperDriverBase::implementSetMicrosteps; no variant overrides it
Base_implementSetMicrosteps == FALSE

Base_implementSetMaxCurrent == FALSE

TMC_implementSetMaxCurrent == TRUE

implementSetMicrosteps(v) == Base_implementSetMicrosteps

implementSetMaxCurrent(v) ==
    IF v = "TMC2130" THEN TMC_implementSetMaxCurrent ELSE Base_implementSetMaxCurrent

\* StepperDriverBase::setMicrosteps, setMotorCurrent, setMotorCurrentPercent
Base_setMicrosteps == [ret |-> "void", calls |-> <<>>]

Base_setMotorCurrent == [ret |-> "void", calls |-> <<>>]

\* mutant: the percentage is passed on to the chip
Mutant_setMotorCurrentPercent == [ret |-> "void", calls |-> <<"rms_current">>]

Base_setMotorCurrentPercent == [ret |-> "void", calls |-> <<>>]

TMC_setMicrosteps(w) ==
    IF ~w.exits THEN [ret |-> "none", calls |-> <<"WAIT_UNTIL">>]
    ELSE [ret |-> "void", calls |-> <<"WAIT_UNTIL", "microsteps">>]

TMC_setMotorCurrent(w) ==
    IF ~w.exits THEN [ret |-> "none", calls |-> <<"WAIT_UNTIL">>]
    ELSE [ret |-> "void", calls |-> <<"WAIT_UNTIL", "rms_current">>]

\* a setter: the calls r it makes, applied to the driver
Setter(op, arg, r, k, w) ==
    /\ (~Has(r.calls, "WAIT_UNTIL") => k = 0)
    /\ Outputs(r.calls)
    /\ regs' \in AfterFieldWrites(regs, r.calls)
    /\ hung' = (r.ret = "none")
    /\ last' = Waited(Call(op, arg, r.ret, r.calls), k, w)
    /\ prevBlocked' = Blocked
    /\ UNCHANGED <<variant, dirArg, direction, dirPin, backup, homing, snap>>

setMicrosteps ==
    /\ ~hung
    /\ \E n \in Args, k \in StstPatterns :
         LET w == TRINAMIC_WAIT_FOR_STANDSTILL[k]
         IN Setter("setMicrosteps", n,
                   IF variant = "Simple" THEN Base_setMicrosteps
                   ELSE TMC_setMicrosteps(w), k, w)

setMotorCurrent ==
    /\ ~hung
    /\ \E c \in Args, k \in StstPatterns :
         LET w == TRINAMIC_WAIT_FOR_STANDSTILL[k]
         IN Setter("setMotorCurrent", c,
                   IF variant = "Simple" THEN Base_setMotorCurrent
                   ELSE TMC_setMotorCurrent(w), k, w)

\* no variant overrides setMotorCurrentPercent
setMotorCurrentPercent ==
    /\ ~hung
    /\ \E p \in PercentArgs :
         Setter("setMotorCurrentPercent", p, Base_setMotorCurrentPercent,
                0, TRINAMIC_WAIT_FOR_STANDSTILL[0])

(***************************************************************************)
(* The homing bracket.  The hooks are called in matching pairs, not        *)
(* nested; between them the homing routine may reconfigure the chip.       *)
(***************************************************************************)
\* StepperDriverBase::beforeHoming / afterHoming
Base_beforeHoming(chip, bk) == [backup |-> bk, calls |-> <<>>]

Base_afterHoming(bk) == <<>>

\* mutant: the TPWMTHRS field is filled from TCOOLTHRS
Mutant_beforeHoming(chip, bk) ==
    [backup |-> [GCONF |-> chip.GCONF, CHOPCONF |-> chip.CHOPCONF,
                 COOLCONF |-> chip.COOLCONF, PWMCONF |-> chip.PWMCONF,
                 TCOOLTHRS |-> chip.TCOOLTHRS, TPWMTHRS |-> chip.TCOOLTHRS],
     calls |-> <<"GCONF.read", "CHOPCONF.read", "COOLCONF.read",
                 "PWMCONF.read", "TCOOLTHRS.read", "TCOOLTHRS.read">>]

\* mutant: beforeHoming() waits for standstill before reading the chip
Mutant_beforeHomingWait(chip, bk) ==
    [backup |-> [GCONF |-> chip.GCONF, CHOPCONF |-> chip.CHOPCONF,
                 COOLCONF |-> chip.COOLCONF, PWMCONF |-> chip.PWMCONF,
                 TCOOLTHRS |-> chip.TCOOLTHRS, TPWMTHRS |-> chip.TPWMTHRS],
     calls |-> <<"WAIT_UNTIL", "GCONF.read", "CHOPCONF.read", "COOLCONF.read",
                 "PWMCONF.read", "TCOOLTHRS.read", "TPWMTHRS.read">>]

\* TMC2130StepperDriver::beforeHoming: the new backup record
TMC_beforeHoming(chip, bk) ==
    [backup |-> [GCONF |-> chip.GCONF, CHOPCONF |-> chip.CHOPCONF,
                 COOLCONF |-> chip.COOLCONF, PWMCONF |-> chip.PWMCONF,
                 TCOOLTHRS |-> chip.TCOOLTHRS, TPWMTHRS |-> chip.TPWMTHRS],
     calls |-> <<"GCONF.read", "CHOPCONF.read", "COOLCONF.read",
                 "PWMCONF.read", "TCOOLTHRS.read", "TPWMTHRS.read">>]

\* mutant: TPWMTHRS is not written back
Mutant_afterHoming(bk) ==
    << <<"GCONF", bk.GCONF>>, <<"CHOPCONF", bk.CHOPCONF>>,
       <<"COOLCONF", bk.COOLCONF>>, <<"PWMCONF", bk.PWMCONF>>,
       <<"TCOOLTHRS", bk.TCOOLTHRS>> >>

\* TMC2130StepperDriver::afterHoming: the register writes, in order
TMC_afterHoming(bk) ==
    << <<"GCONF", bk.GCONF>>, <<"CHOPCONF", bk.CHOPCONF>>,
       <<"COOLCONF", bk.COOLCONF>>, <<"PWMCONF", bk.PWMCONF>>,
       <<"TCOOLTHRS", bk.TCOOLTHRS>>, <<"TPWMTHRS", bk.TPWMTHRS>> >>

\* the chip after a list of <<register, value>> writes
RECURSIVE Written(_, _)
Written(chip, writes) ==
    IF writes = <<>> THEN chip
    ELSE Written([chip EXCEPT ![Head(writes)[1]] = Head(writes)[2]], Tail(writes))

\* how many registers differ between two register files
Changed(chip, after) == Cardinality({r \in Regs : chip[r] # after[r]})

WriteCalls(writes) == [i \in 1..Len(writes) |-> writes[i][1] \o ".write"]

beforeHoming ==
    /\ ~hung
    /\ ~homing
    /\ LET r == IF variant = "Simple" THEN Base_beforeHoming(regs, backup)
                ELSE TMC_beforeHoming(regs, backup)
       IN /\ backup' = r.backup
          /\ last' = Call("beforeHoming", 0, "void", r.calls)
    /\ homing' = TRUE
    /\ snap' = regs
    /\ prevBlocked' = Blocked
    /\ UNCHANGED <<variant, dirArg, direction, stepPin, dirPin, enablePin, regs, hung>>

afterHoming ==
    /\ ~hung
    /\ homing
    /\ LET w == IF variant = "Simple" THEN Base_afterHoming(backup)
                ELSE TMC_afterHoming(backup)
       IN /\ regs' = Written(regs, w)
          /\ last' = Call("afterHoming", Changed(regs, Written(regs, w)), "void",
                           WriteCalls(w))
    /\ homing' = FALSE
    /\ prevBlocked' = Blocked
    /\ UNCHANGED <<variant, dirArg, direction, stepPin, dirPin, enablePin, backup, hung, snap>>

\* the homing routine changes one register of the chip (e.g. to disable
\* silent mode), not through the driver object
homingReconfigure ==
    /\ ~hung
    /\ homing
    /\ variant = "TMC2130"
    /\ \E r \in Regs, v \in RegVals :
         /\ regs[r] # v
         /\ regs' = [regs EXCEPT ![r] = v]
    /\ last' = Call("homingReconfigure", 0, "void", <<>>)
    /\ prevBlocked' = Blocked
    /\ UNCHANGED <<variant, dirArg, direction, stepPin, dirPin, enablePin, backup,
                   hung, homing, snap>>

(***************************************************************************)
(* Specifications.  Spec is the driver under every call.  Its two halves   *)
(* are checked apart: SpecStep is the driver under the stepping, direction *)
(* and enable calls, SpecChip the driver under init, the configuration     *)
(* setters and the homing bracket, from a state with the step and          *)
(* direction outputs low and the output stage on.                          *)
(***************************************************************************)
NextStep ==
    \/ stepCond
    \/ step
    \/ unstep
    \/ dir
    \/ enable
    \/ disable

NextChip ==
    \/ init
    \/ setMicrosteps
    \/ setMotorCurrent
    \/ setMotorCurrentPercent
    \/ beforeHoming
    \/ afterHoming
    \/ homingReconfigure

Next == NextStep \/ NextChip

Spec == Init /\ [][Next]_vars

SpecStep == Init /\ [][NextStep]_vars

InitChip == Init /\ ~stepPin /\ ~dirPin /\ enablePin

SpecChip == InitChip /\ [][NextChip]_vars

\* the driver under every method of its interface that acts on the outputs
\* or the chip, in any order
NextCalls ==
    \/ stepCond
    \/ step
    \/ unstep
    \/ dir
    \/ enable
    \/ disable
    \/ init
    \/ setMicrosteps
    \/ setMotorCurrent
    \/ beforeHoming
    \/ afterHoming

SpecCalls == InitChip /\ [][NextCalls]_vars

(***************************************************************************)
(* Properties.                                                             *)
(***************************************************************************)
IsTMC == variant = "TMC2130"

\* the endstop reading stepCond() has to go by: that of the max endstop
\* when travelling towards max, of the min endstop otherwise
Triggered == IF direction THEN last.maxT ELSE last.minT

\* C1: stepCond() returns true and issues no step.on iff the endstop in the
\* direction of travel (max for direction = true, min for false) reports
\* triggered; otherwise it returns false and issues step.on exactly once,
\* leaving the step output asserted.  Both variants.
C1_StepCondGated ==
    last.op = "stepCond" =>
        /\ Triggered => last.ret = "true" /\ Count(last.calls, "step.on") = 0
        /\ ~Triggered =>
              last.ret = "false" /\ Count(last.calls, "step.on") = 1 /\ stepPin

\* C1 witness: the spec's scenario on the TMC2130 driver: min endstop
\* triggered (max not), direction = false, stepCond() returned true without
\* a pulse
C1_Witness ==
    /\ IsTMC /\ last.op = "stepCond" /\ ~direction
    /\ last.minT /\ ~last.maxT
    /\ last.ret = "true" /\ ~Has(last.calls, "step.on")

\* C2: the direction flag is the argument of the most recent dir() (true
\* before any dir()), so only dir() changes it; dir(d) drives the direction
\* output to d; and stepCond() polls the endstop that argument selects.
C2_DirectionIsLastDir ==
    /\ direction = (dirArg # "false")
    /\ dirArg # "none" => dirPin = direction
    /\ last.op = "dir" => dirArg = BoolStr(last.arg = 1)
    /\ last.op = "stepCond" =>
          last.calls[1] = (IF dirArg = "false" THEN "minEndstop.update"
                           ELSE "maxEndstop.update")

\* C2 witness: after dir(false) a stepCond() polled the min endstop
C2_Witness ==
    /\ dirArg = "false" /\ ~direction /\ ~dirPin
    /\ last.op = "stepCond" /\ last.calls[1] = "minEndstop.update"

\* C3: when afterHoming() of the TMC2130 driver returns, the six tracked
\* registers hold the values they held at the matching beforeHoming(),
\* whatever was written in between.
C3_RoundTrip == IsTMC /\ last.op = "afterHoming" => regs = snap

\* C3 witness: an afterHoming() that found all six registers changed and
\* restored them
C3_Witness ==
    IsTMC /\ last.op = "afterHoming" /\ last.arg = Len(RegNames) /\ regs = snap

\* C4 (as claimed): TMC2130 init() returns false with an SPI error report
\* when the connectivity test fails, and returns true with the output stage
\* enabled when it succeeds; in particular it returns.
C4_InitReturns ==
    IsTMC /\ last.op = "init" =>
        /\ last.test2 # 0 =>
              last.ret = "false" /\ Has(last.calls, "print(SPI error)")
        /\ last.test2 = 0 => last.ret = "true" /\ enablePin

\* C5 (as claimed): every standstill wait ends, after at most
\* timeout * 1000 / 100 delay samples.
C5_WaitBounded ==
    last.waited =>
        ~hung /\ last.delays <= WaitBudget(STANDSTILL_TIMEOUT_MS)

\* C6 (as claimed): the wait exits as soon as the chip reports standstill:
\* when standstill is reported from the n-th poll on, no delay sample is
\* taken after that poll (none at all when n = 0).
C6_WaitExitsAtStandstill ==
    last.waited /\ last.still # Never => last.delays <= last.still

\* a call that returned did nothing: it made no call on a collaborator
NoEffect == last.ret # "none" => last.calls = <<>> /\ last.ret = "void"

\* C7 (as claimed): on a variant whose implementSetMicrosteps() is false
\* setMicrosteps() writes no chip register and does nothing else, and on a
\* variant whose implementSetMaxCurrent() is false setMotorCurrent() and
\* setMotorCurrentPercent() write no chip register and do nothing else.
C7_UnsupportedSettersAreNoOps ==
    /\ last.op = "setMicrosteps" /\ ~implementSetMicrosteps(variant) =>
          ChipWrites(last.calls) = {} /\ NoEffect
    /\ last.op \in {"setMotorCurrent", "setMotorCurrentPercent"}
          /\ ~implementSetMaxCurrent(variant) =>
          ChipWrites(last.calls) = {} /\ NoEffect

\* C8: after enable() the output stage is asserted and after disable()
\* deasserted, whatever came before; a second enable() (disable()) in a row
\* changes nothing; neither changes the step output, the direction output,
\* the direction flag, the chip registers or the backup record.
C8_EnableDisable ==
    [][/\ last'.op = "enable" => enablePin'
       /\ last'.op = "disable" => ~enablePin'
       /\ last'.op \in {"enable", "disable"} =>
             /\ <<stepPin, dirPin, direction, regs, backup>>'
                   = <<stepPin, dirPin, direction, regs, backup>>
             /\ last.op = last'.op => driverState' = driverState]_vars

\* C8 witness: disable() left the output stage of a TMC2130 driver
\* deasserted, the step output being asserted
C8_Witness == IsTMC /\ last.op = "disable" /\ ~enablePin /\ stepPin

\* C9: the backup record always equals the registers as they were at the
\* last beforeHoming() (so nothing but beforeHoming() writes it), and
\* beforeHoming() itself writes no chip register.
C9_BackupIsSnapshot ==
    IsTMC =>
        /\ backup = snap
        /\ last.op = "beforeHoming" =>
              regs = snap /\ ChipWrites(last.calls) = {}

\* C9 witness: inside the bracket, after an init() that changed the chip
C9_Witness ==
    /\ IsTMC /\ homing /\ last.op = "init" /\ last.ret = "true"
    /\ regs # snap /\ backup = snap

\* the calls of a successful TMC2130 init(), after its opening message
InitSequence ==
    <<"enable.off", "begin", "test_connection", "test_connection",
      "version", "print(chip version)", "WAIT_UNTIL",
      "I_scale_analog(true)", "interpolate(false)", "internal_Rsense(false)",
      "sgt(0)", "diag1_stall(true)", "enable.on">>

\* level of the output stage after the first i calls, from level `before`
EnableAfter(before, calls, i) ==
    PinAfter(before, SubSeq(calls, 1, i), "enable.on", "enable.off")

\* C10: a successful TMC2130 init() issues exactly InitSequence, in this
\* order, and the output stage is off from the first of these calls until
\* the last configuration write has been issued.
C10_InitOrder ==
    IsTMC /\ last.op = "init" /\ last.ret = "true" =>
        /\ Tail(last.calls) = InitSequence
        /\ \A i \in First(last.calls, "enable.off")
                        ..First(last.calls, "diag1_stall(true)") :
              /\ ~EnableAfter(TRUE, last.calls, i)
              /\ ~EnableAfter(FALSE, last.calls, i)
        /\ enablePin

\* C10 witness: a successful init() of the TMC2130 driver
C10_Witness ==
    IsTMC /\ last.op = "init" /\ last.ret = "true" /\ last.test2 = 0 /\ enablePin

\* C11: TMC2130 init() runs the connectivity test exactly twice and only the
\* second result decides: it returns false, with the SPI error report, iff
\* the second result is nonzero, and with any other first result the same
\* run returns the same value after the same calls on the chip.
C11_SecondTestDecides ==
    IsTMC /\ last.op = "init" =>
        /\ Count(last.calls, "test_connection") = 2
        /\ (last.ret = "false") = (last.test2 # 0)
        /\ (last.ret = "false") = Has(last.calls, "print(SPI error)")
        /\ \A t \in TestCodes :
              LET r == TMC_init(t, last.test2,
                                TRINAMIC_WAIT_FOR_STANDSTILL[last.still])
              IN r.ret = last.ret /\ r.calls = last.calls

\* C11 witness: the first test failed, the second succeeded, and init()
\* went on to configure the chip and returned true
C11_Witness ==
    /\ IsTMC /\ last.op = "init" /\ last.test1 # 0 /\ last.test2 = 0
    /\ last.ret = "true" /\ Has(last.calls, "diag1_stall(true)")
\* the register writes that need the motor at rest: microsteps, rms_current
\* and the five configuration writes of init()
RestWrites ==
    {"microsteps", "rms_current", "I_scale_analog(true)", "interpolate(false)",
     "internal_Rsense(false)", "sgt(0)", "diag1_stall(true)"}

SteppingOps == {"stepCond", "step", "unstep", "dir", "enable", "disable"}

\* What the call op does on a driver of variant v whose direction flag is d:
\* its return value, the calls it issues, the direction flag and the level
\* of the direction output it leaves (lvl is the level before).  arg is the
\* argument of dir(), minT / maxT what the endstops would report.
Stepping(v, op, d, lvl, arg, minT, maxT) ==
    LET simple == v = "Simple"
        flat(calls) == [ret |-> "void", calls |-> calls, direction |-> d,
                        level |-> lvl]
    IN CASE op = "stepCond" ->
              LET r == IF simple THEN Simple_stepCond(d, minT, maxT)
                       ELSE TMC_stepCond(d, minT, maxT)
              IN [ret |-> BoolStr(r.ret), calls |-> r.calls, direction |-> d,
                  level |-> lvl]
         [] op = "step" -> flat(IF simple THEN Simple_step ELSE TMC_step)
         [] op = "unstep" -> flat(IF simple THEN Simple_unstep ELSE TMC_unstep)
         [] op = "dir" ->
              LET r == IF simple THEN Simple_dir(arg) ELSE TMC_dir(arg)
              IN [ret |-> "void", calls |-> r.calls, direction |-> r.direction,
                  level |-> r.level]
         [] op = "enable" -> flat(IF simple THEN Simple_enable ELSE TMC_enable)
         [] op = "disable" -> flat(IF simple THEN Simple_disable ELSE TMC_disable)

\* C13: a stepping, direction or enable call does the same on both variants:
\* from the same direction flag and output levels and with the same endstop
\* readings, SimpleStepperDriver and TMC2130StepperDriver return the same
\* value, issue the same calls on the outputs and leave the same direction
\* flag and output levels, and that is what the driver at hand did; so equal
\* call sequences give equal traces.  On the TMC2130 driver the call leaves
\* the chip registers and the backup record alone.
C13_VariantsAgree ==
    [][last'.op \in SteppingOps =>
          LET a == Stepping("Simple", last'.op, direction, dirPin,
                            last'.arg = 1, last'.minT, last'.maxT)
              b == Stepping("TMC2130", last'.op, direction, dirPin,
                            last'.arg = 1, last'.minT, last'.maxT)
          IN /\ a = b
             /\ last'.ret = a.ret /\ last'.calls = a.calls
             /\ direction' = a.direction /\ dirPin' = a.level
             /\ stepPin' = PinAfter(stepPin, a.calls, "step.on", "step.off")
             /\ enablePin' = PinAfter(enablePin, a.calls, "enable.on", "enable.off")
             /\ \A c \in 1..Len(last'.calls) : Touches(last'.calls[c]) = {}
             /\ regs' = regs /\ backup' = backup]_vars

\* C13 witness: a TMC2130 driver that, travelling towards min with the
\* output stage on, stepped in stepCond() as the simple driver does, its
\* chip registers and backup record still as constructed
C13_Witness ==
    /\ IsTMC /\ last.op = "stepCond" /\ ~direction /\ enablePin
    /\ last.ret = "false" /\ stepPin
    /\ last.calls = Simple_stepCond(direction, last.minT, last.maxT).calls
    /\ regs \in PowerOnRegs /\ backup = [r \in Regs |-> Uninit]
\* the polls of an endstop among the calls
EndstopPolls(calls) ==
    {i \in 1..Len(calls) : calls[i] \in {"minEndstop.update", "maxEndstop.update"}}

\* C14: step() asserts the step output from every state, polling no endstop,
\* also directly after a stepCond() that returned true; unstep() deasserts
\* it; neither changes the direction flag.  Both variants.
C14_StepUnconditional ==
    [][/\ last'.op = "step" =>
             /\ stepPin' /\ last'.calls = <<"step.on">>
             /\ EndstopPolls(last'.calls) = {}
             /\ direction' = direction
       /\ last'.op = "unstep" =>
             /\ ~stepPin' /\ last'.calls = <<"step.off">>
             /\ direction' = direction]_vars

\* C14 witness: step() directly after a stepCond() that found the endstop
\* in the direction of travel triggered; the step output is asserted
C14_Witness ==
    /\ last.op = "step" /\ prevBlocked /\ stepPin
    /\ EndstopPolls(last.calls) = {}
\* stepCond() of the driver at hand
StepCondOf(v, d, minT, maxT) ==
    IF v = "Simple" THEN Simple_stepCond(d, minT, maxT)
    ELSE TMC_stepCond(d, minT, maxT)

\* C15: a stepCond() polls exactly one endstop exactly once, the max endstop
\* when the direction flag is true and the min endstop when it is false; the
\* other endstop is not polled, and with the other endstop's state inverted
\* the call returns the same value after the same calls.
C15_OnePoll ==
    last.op = "stepCond" =>
        LET sel == IF direction THEN "maxEndstop.update" ELSE "minEndstop.update"
            opp == IF direction THEN "minEndstop.update" ELSE "maxEndstop.update"
            other == IF direction
                     THEN StepCondOf(variant, direction, ~last.minT, last.maxT)
                     ELSE StepCondOf(variant, direction, last.minT, ~last.maxT)
        IN /\ Cardinality(EndstopPolls(last.calls)) = 1
           /\ Count(last.calls, sel) = 1
           /\ Count(last.calls, opp) = 0
           /\ BoolStr(other.ret) = last.ret /\ other.calls = last.calls

\* C15 witness: travelling towards max with the min endstop triggered and
\* the max endstop not, the simple driver polled the max endstop only and
\* stepped
C15_Witness ==
    /\ variant = "Simple" /\ last.op = "stepCond" /\ direction
    /\ last.minT /\ ~last.maxT
    /\ last.calls = <<"maxEndstop.update", "step.on">> /\ last.ret = "false"
\* the five configuration writes at the end of init()
ConfigWrites ==
    {"I_scale_analog(true)", "interpolate(false)", "internal_Rsense(false)",
     "sgt(0)", "diag1_stall(true)"}

\* C16: a TMC2130 init() whose second connectivity test is nonzero returns
\* false with the output stage off, has issued none of the five
\* configuration writes and has not entered the standstill wait; the
\* direction flag and the backup record are as before the call.
C16_InitFailure ==
    [][IsTMC /\ last'.op = "init" /\ last'.test2 # 0 =>
          /\ last'.ret = "false" /\ ~hung'
          /\ ~enablePin'
          /\ \A i \in 1..Len(last'.calls) : last'.calls[i] \notin ConfigWrites
          /\ ~Has(last'.calls, "WAIT_UNTIL") /\ ~last'.waited
          /\ direction' = direction /\ backup' = backup]_vars

\* C16 witness: init() failed inside the homing bracket, on a driver whose
\* output stage was on before: the stage is off and the backup record still
\* holds the snapshot
C16_Witness ==
    /\ IsTMC /\ last.op = "init" /\ last.test2 # 0 /\ last.ret = "false"
    /\ ~enablePin /\ homing /\ backup = snap /\ backup \in RegFile
\* the methods that must not block
NonBlockingOps == SteppingOps \cup {"beforeHoming", "afterHoming"}

\* the methods that wait for standstill
WaitingOps == {"init", "setMicrosteps", "setMotorCurrent"}

\* the call entered the standstill wait (the only place stst() is polled)
EnteredWait == Has(last.calls, "WAIT_UNTIL") \/ last.waited \/ hung

\* C17: stepCond(), step(), unstep(), dir(), enable(), disable(),
\* beforeHoming() and afterHoming() never enter the standstill wait and
\* always return; a call that entered the wait is an init(),
\* setMicrosteps() or setMotorCurrent() of the TMC2130 driver.
C17_OnlyWaitBlocks ==
    /\ last.op \in NonBlockingOps => ~EnteredWait /\ last.ret # "none"
    /\ EnteredWait => IsTMC /\ last.op \in WaitingOps

\* C17 witness: a stepCond() of the TMC2130 driver returned inside the
\* homing bracket, after a call that waited for standstill and changed the
\* chip
C17_Witness ==
    /\ IsTMC /\ last.op = "stepCond" /\ last.ret # "none" /\ ~hung
    /\ homing /\ regs # snap
\* C18: on the TMC2130 driver, whose implementSetMaxCurrent() is true,
\* setMotorCurrentPercent(p) issues no call at all (no register write, no
\* standstill wait), returns, and leaves the direction flag, the outputs,
\* the chip registers and the backup record as they were; a
\* setMotorCurrent() that returns has written rms_current exactly once.
C18_PercentIsNoOp ==
    [][IsTMC =>
          /\ last'.op = "setMotorCurrentPercent" =>
                /\ implementSetMaxCurrent(variant)
                /\ last'.arg \in 0..MAX_PERCENT
                /\ last'.calls = <<>> /\ last'.ret = "void"
                /\ ~last'.waited /\ ~hung'
                /\ driverState' = driverState
          /\ last'.op = "setMotorCurrent" /\ last'.ret # "none" =>
                /\ Count(last'.calls, "rms_current") = 1
                /\ "CHOPCONF" \in Touched(last'.calls)]_vars

\* C18 witness: setMotorCurrentPercent(100) on a TMC2130 driver inside the
\* homing bracket, the chip changed since the snapshot
C18_Witness ==
    /\ IsTMC /\ last.op = "setMotorCurrentPercent" /\ last.arg = MAX_PERCENT
    /\ last.calls = <<>> /\ homing /\ regs # snap /\ backup = snap

=============================================================================
